---- MODULE Spec2Model ----
(***************************************************************************)
(* The real-time hub of the social-network backend: the connection hub     *)
(* (pkg/sockets/websocket/hub.go), the client sessions (readPump and       *)
(* writePump), the chat handlers and the thread resolver (chat.go,         *)
(* gifMsg.go) and the REST operations that touch the chat tables.          *)
(*                                                                         *)
(* Every goroutine the code starts is a record in `tasks`; one action is   *)
(* one step of one goroutine between two accesses to shared state (the hub *)
(* mutex, a channel, the SQLite store).                                    *)
(***************************************************************************)
EXTENDS Integers, Sequences, FiniteSets, TLC

(* ------------------------------ bounds --------------------------------- *)

\* Capacity of a session's outbound queue in the model (the code makes 512).
SendCap == 1

\* Inbound frames and REST requests accepted in one run.
MaxInbound == 2

(* ----------------------------- universe -------------------------------- *)

Users == {"u1", "u2", "u3"}

Sessions == {"s1", "s2", "s3", "s4"}

\* Client.userID: the user a session was authenticated as (two sessions of u1).
userID(c) ==
    CASE c = "s1" -> "u1"
      [] c = "s2" -> "u1"
      [] c = "s3" -> "u2"
      [] OTHER    -> "u3"

Groups == {1, 2}

\* groups.creator_id
creator_id(g) == IF g = 1 THEN "u1" ELSE "u2"

VARIABLES
    clients,            \* Hub.clients: the registry
    userConnections,    \* Hub.userConnections: user -> list of sessions
    register,           \* Hub.register channel
    unregister,         \* Hub.unregister channel
    userStatus,         \* Hub.userStatus: user -> "none" | "online" | "offline"
    hub,                \* position of Hub.Run: [pc, c]
    conn,               \* Client.conn: "none" | "open" | "closed"
    readPump,           \* "none" | "run" | "done"
    writePump,          \* "none" | "run" | "done"
    send,               \* Client.send: the buffered frames
    sendClosed,         \* Client.send has been closed
    tasks,              \* goroutines in flight
    crashed,            \* an unrecovered panic ended the process
    chat_threads,       \* table chat_threads
    chat_participants,  \* table chat_participants: <<chat_id, user_id>>
    messages,           \* table messages, in insertion order
    group_memberships,  \* table group_memberships: <<group_id, user_id>>
    followers,          \* table followers: <<follower_id, followee_id>>
    nextIn,             \* number of inbound frames and REST requests so far
    sent,               \* history: every frame enqueued on a session, in order
    closes,             \* history: number of close(client.send) per session
    unregDone,          \* history: sessions handleUnregister removed
    offlineStarted,     \* history: offline goroutines started, per user
    offlineSet,         \* history: updateUserStatus(u, false) run by them
    offlineBcast,       \* history: broadcastUserStatus(u, false) run by them
    returned,           \* history: results of the private find-or-create calls
    fullSeen,           \* history: sessions a producer found full
    kicked,             \* history: committed kicks: [g, u, at]
    groups,             \* table groups: the ids of the groups that exist
    typingUsers,        \* Hub.typingUsers: chat id -> set of users
    typingIn,           \* history: the typing frames read: [u, chat, on]
    message_reads,      \* table message_reads: <<message_id, user_id>>, in order
    readDone,           \* history: the read-receipt batches that have returned
    fetched,            \* history: the results of the chat-history fetches
    checked,            \* history: the participant checks of history requests
    notifications,      \* table notifications, in insertion order
    inbound,            \* history: the inbound events read: [q, kind, c, rcpt]
    responded           \* history: the REST requests answered with success

hubVars == <<clients, userConnections, register, unregister, userStatus, hub>>
sessVars == <<conn, readPump, writePump, send, sendClosed>>
dbVars == <<chat_threads, chat_participants, messages, group_memberships, followers>>
histVars == <<sent, closes, unregDone, offlineStarted, offlineSet, offlineBcast,
              returned, fullSeen, kicked>>
\* What the handlers of chat, presence and membership leave alone.
typingVars == <<typingUsers, typingIn>>
readVars == <<message_reads, readDone, fetched, checked>>
errVars == <<notifications, inbound, responded>>
extVars == <<groups, typingVars, readVars, errVars>>
vars == <<hubVars, sessVars, tasks, crashed, dbVars, nextIn, histVars, extVars>>

(* ------------------------------ frames --------------------------------- *)

\* WSMessage, reduced to what routing depends on.
\* type; u: the user it is about (sender, subject or addressee); id: message
\* id; chat: thread id; on: the online flag of a status frame; users: the
\* online-users list; chats: the threads a chat list flags as online.
Frame(type, u, id, chat, on, users, chats) ==
    [type |-> type, u |-> u, id |-> id, chat |-> chat, on |-> on,
     users |-> users, chats |-> chats]

NoFrame == Frame("none", "", 0, 0, FALSE, {}, {})

\* A goroutine. kind/pc say where it is; c, u: the session and user it runs for;
\* q: the inbound request it serves (0: started by the hub); rcpt, grp: the
\* addressing of a chat message; chat: thread id; ids: the message ids of a
\* read-receipt batch; stale: its read snapshot is
\* behind the store; users/conns: what SendToUser still iterates; rec: a
\* deferred recover() protects it; org: what started it ("in": an inbound
\* request, "reg"/"unreg": the hub handling session c); then: where the
\* caller of SendToUser goes on when the call returns ("": it ends).
Task(kind, pc, org, c, u, q) ==
    [kind |-> kind, pc |-> pc, org |-> org, c |-> c, u |-> u, q |-> q,
     rcpt |-> "", grp |-> 0, chat |-> 0, stale |-> FALSE, users |-> <<>>,
     conns |-> <<>>, frame |-> NoFrame, rec |-> FALSE, ids |-> <<>>,
     then |-> ""]

(* ------------------------------- store --------------------------------- *)

\* getChatParticipants
getChatParticipants(chat) == {p[2] : p \in {r \in chat_participants : r[1] = chat}}

\* The SELECT of getOrCreatePrivateChatThread / GetOrCreatePrivateChat.
PrivateThreads(a, b) ==
    {t.id : t \in {x \in chat_threads :
        /\ ~x.is_group
        /\ a \in getChatParticipants(x.id)
        /\ b \in getChatParticipants(x.id)
        /\ Cardinality(getChatParticipants(x.id)) = 2}}

\* SELECT id FROM chat_threads WHERE is_group = 1 AND group_id = ?
GroupThreads(g) == {t.id : t \in {x \in chat_threads : x.is_group /\ x.group_id = g}}

\* QueryRow(...).Scan(&chatID) over that SELECT: no row, or one of the rows.
FirstRow(S) == IF S = {} THEN {{}} ELSE {{x} : x \in S}

\* AUTOINCREMENT primary keys.
NewThreadId == Cardinality(chat_threads) + 1
NewMessageId == Len(messages) + 1

\* getRelatedUsers
getRelatedUsers(u) ==
    {r[2] : r \in {f \in followers : f[1] = u}} \cup
    {r[1] : r \in {f \in followers : f[2] = u /\ f[1] # u}}

\* SQLite in WAL mode: a commit leaves every open read snapshot behind the
\* store, and a transaction holding such a snapshot cannot write any more.
TxReadPcs == {"write"}

MarkStale_Skipped(ts) == ts

MarkStale(ts) ==
    {IF t.pc \in TxReadPcs THEN [t EXCEPT !.stale = TRUE] ELSE t : t \in ts}

\* The first write of a transaction (tx.Exec) fails with SQLITE_BUSY when its
\* snapshot is behind the store.
TxBusy_Never(t) == FALSE

TxBusy(t) == t.stale

(* ---------------------------- Hub.SendToUser ---------------------------- *)

SeqToSet(s) == {s[i] : i \in 1..Len(s)}

\* SendToUser(Head(t.users)) has returned: the caller goes on or ends.
NextUser(t) ==
    IF Len(t.users) > 1
    THEN {[t EXCEPT !.users = Tail(t.users), !.conns = <<>>, !.pc = "snap"]}
    ELSE IF t.then # ""
    THEN {[t EXCEPT !.users = <<>>, !.conns = <<>>, !.frame = NoFrame,
                    !.pc = t.then, !.then = ""]}
    ELSE {}

\* The loop over the copied connections moves on.
NextConn(t) ==
    IF Len(t.conns) > 1
    THEN {[t EXCEPT !.conns = Tail(t.conns), !.pc = "check"]}
    ELSE NextUser(t)

\* SendToUser: copy the user's connection list under RLock.
SendSnap(t) ==
    /\ t.pc = "snap"
    /\ LET connections == userConnections[Head(t.users)] IN
       tasks' = (tasks \ {t}) \cup
                (IF Len(connections) = 0
                 THEN NextUser(t)
                 ELSE {[t EXCEPT !.conns = connections, !.pc = "check"]})
    /\ UNCHANGED <<hubVars, sessVars, crashed, dbVars, nextIn, histVars>>

\* SendToUser: "Check if client is still registered before sending".
SendCheck(t) ==
    /\ t.pc = "check"
    /\ tasks' = (tasks \ {t}) \cup
                (IF Head(t.conns) \in clients
                 THEN {[t EXCEPT !.pc = "put"]}
                 ELSE NextConn(t))
    /\ UNCHANGED <<hubVars, sessVars, crashed, dbVars, nextIn, histVars>>

\* The goroutine started when the queue is full: h.unregister <- c.
UnregisterRequest(t) ==
    [Task("unregReq", "go", t.org, Head(t.conns), t.u, t.q) EXCEPT
        !.users = t.users, !.frame = t.frame]

\* SendToUser: select { case client.send <- message: ... default: ... }.
\* A send on a closed channel panics; without a recover() the process ends.
SendPut(t) ==
    /\ t.pc = "put"
    /\ LET c == Head(t.conns) IN
       IF sendClosed[c]
       THEN /\ tasks' = tasks \ {t}
            /\ crashed' = (crashed \/ ~t.rec)
            /\ UNCHANGED <<send, sent, fullSeen>>
       ELSE IF Len(send[c]) >= SendCap
       THEN /\ tasks' = (tasks \ {t}) \cup NextConn(t) \cup {UnregisterRequest(t)}
            /\ fullSeen' = fullSeen \cup {c}
            /\ UNCHANGED <<send, sent, crashed>>
       ELSE /\ send' = [send EXCEPT ![c] = Append(@, t.frame)]
            /\ sent' = [sent EXCEPT ![c] = Append(@, t.frame)]
            /\ tasks' = (tasks \ {t}) \cup NextConn(t)
            /\ UNCHANGED <<fullSeen, crashed>>
    /\ UNCHANGED <<hubVars, conn, readPump, writePump, sendClosed, dbVars, nextIn,
                   closes, unregDone, offlineStarted, offlineSet, offlineBcast,
                   returned, kicked>>

\* go func(c) { select { case h.unregister <- c: default: } }
UnregisterSend(t) ==
    /\ t.kind = "unregReq"
    /\ unregister' = Append(unregister, t.c)
    /\ tasks' = tasks \ {t}
    /\ UNCHANGED <<clients, userConnections, register, userStatus, hub, sessVars,
                   crashed, dbVars, nextIn, histVars>>

\* SendToUsers: one goroutine per user, none of them with a recover().
SendToUsers(t, us, f) ==
    {[Task("send", "snap", t.org, t.c, t.u, t.q) EXCEPT
         !.users = <<u>>, !.frame = f] : u \in us}

(* ------------------------------ sessions -------------------------------- *)

\* ServeWS: the session is made, handed to the hub and its two pumps start.
ServeWS(c) ==
    /\ conn[c] = "none"
    /\ conn' = [conn EXCEPT ![c] = "open"]
    /\ register' = Append(register, c)
    /\ readPump' = [readPump EXCEPT ![c] = "run"]
    /\ writePump' = [writePump EXCEPT ![c] = "run"]
    /\ UNCHANGED <<clients, userConnections, unregister, userStatus, hub, send,
                   sendClosed, tasks, crashed, dbVars, nextIn, histVars>>

\* The peer goes away, the network fails or the read deadline passes.
PeerGone(c) ==
    /\ conn[c] = "open"
    /\ conn' = [conn EXCEPT ![c] = "closed"]
    /\ UNCHANGED <<hubVars, readPump, writePump, send, sendClosed, tasks, crashed,
                   dbVars, nextIn, histVars>>

\* readPump: ReadMessage fails; the deferred function asks for
\* unregistration (a non-blocking send) and closes the connection.
ReadPumpExit(c) ==
    /\ readPump[c] = "run"
    /\ conn[c] = "closed"
    /\ readPump' = [readPump EXCEPT ![c] = "done"]
    /\ unregister' = Append(unregister, c)
    /\ UNCHANGED <<clients, userConnections, register, userStatus, hub, conn,
                   writePump, send, sendClosed, tasks, crashed, dbVars, nextIn,
                   histVars>>

\* writePump: a frame is received from the queue and written together with
\* everything queued behind it.
WritePumpWrite(c) ==
    /\ writePump[c] = "run"
    /\ Len(send[c]) > 0
    /\ conn[c] = "open"
    /\ send' = [send EXCEPT ![c] = <<>>]
    /\ UNCHANGED <<hubVars, conn, readPump, writePump, sendClosed, tasks, crashed,
                   dbVars, nextIn, histVars>>

\* writePump: the write of a received frame fails; the pump returns.
WritePumpWriteFails(c) ==
    /\ writePump[c] = "run"
    /\ Len(send[c]) > 0
    /\ conn[c] = "closed"
    /\ send' = [send EXCEPT ![c] = Tail(@)]
    /\ writePump' = [writePump EXCEPT ![c] = "done"]
    /\ UNCHANGED <<hubVars, conn, readPump, sendClosed, tasks, crashed, dbVars,
                   nextIn, histVars>>

\* writePump: the receive reports the queue closed and empty: it writes the
\* close frame, returns, and the deferred function closes the connection.
WritePumpClosed(c) ==
    /\ writePump[c] = "run"
    /\ Len(send[c]) = 0
    /\ sendClosed[c]
    /\ writePump' = [writePump EXCEPT ![c] = "done"]
    /\ conn' = [conn EXCEPT ![c] = "closed"]
    /\ UNCHANGED <<hubVars, readPump, send, sendClosed, tasks, crashed, dbVars,
                   nextIn, histVars>>

\* writePump: the ticker's ping fails on a closed connection.
WritePumpPingFails(c) ==
    /\ writePump[c] = "run"
    /\ conn[c] = "closed"
    /\ writePump' = [writePump EXCEPT ![c] = "done"]
    /\ UNCHANGED <<hubVars, conn, readPump, send, sendClosed, tasks, crashed,
                   dbVars, nextIn, histVars>>

(* -------------------------------- Hub.Run ------------------------------- *)

addUserConnectionUnsafe(uc, c) == [uc EXCEPT ![userID(c)] = Append(@, c)]

\* The list without its first occurrence of c.
RemoveFirst(s, c) ==
    IF \E i \in 1..Len(s) : s[i] = c
    THEN LET i == CHOOSE k \in 1..Len(s) :
                      s[k] = c /\ \A j \in 1..(k - 1) : s[j] # c
         IN SubSeq(s, 1, i - 1) \o SubSeq(s, i + 1, Len(s))
    ELSE s

removeUserConnectionUnsafe_KeepsEntry(uc, c) == uc

removeUserConnectionUnsafe(uc, c) == [uc EXCEPT ![userID(c)] = RemoveFirst(@, c)]

\* handleUnregister: len(h.userConnections[client.userID]) == 0
NoConnectionLeft_Unchecked(uc, u) == TRUE

NoConnectionLeft(uc, u) == Len(uc[u]) = 0

\* handleRegister, the part under the mutex.
HandleRegister ==
    /\ hub.pc = "idle"
    /\ Len(register) > 0
    /\ LET c == Head(register) IN
       /\ register' = Tail(register)
       /\ clients' = clients \cup {c}
       /\ userConnections' = addUserConnectionUnsafe(userConnections, c)
       /\ hub' = [pc |-> "registered", c |-> c]
    /\ UNCHANGED <<unregister, userStatus, sessVars, tasks, crashed, dbVars,
                   nextIn, histVars>>

\* handleRegister, after the mutex: updateUserStatus(userID, true), then the
\* chat-list goroutine and the status-broadcast goroutine.
HandleRegisterStatus ==
    /\ hub.pc = "registered"
    /\ LET c == hub.c
           u == userID(c) IN
       /\ userStatus' = [userStatus EXCEPT ![u] = "online"]
       /\ tasks' = tasks \cup
             {[Task("chatlist", "build", "reg", c, u, 0) EXCEPT !.rec = TRUE],
              [Task("status", "related", "reg", c, u, 0) EXCEPT
                   !.rec = TRUE, !.frame = Frame("status", u, 0, 0, TRUE, {}, {})]}
    /\ hub' = [pc |-> "idle", c |-> ""]
    /\ UNCHANGED <<clients, userConnections, register, unregister, sessVars,
                   crashed, dbVars, nextIn, histVars>>

\* handleUnregister, all of it under the mutex.  The "safe close" receives
\* from the queue: a buffered frame is taken out and the queue stays open.
HandleUnregister ==
    /\ hub.pc = "idle"
    /\ Len(unregister) > 0
    /\ LET c == Head(unregister)
           u == userID(c)
           uc == removeUserConnectionUnsafe(userConnections, c) IN
       /\ unregister' = Tail(unregister)
       /\ IF c \in clients
          THEN /\ clients' = clients \ {c}
               /\ userConnections' = uc
               /\ unregDone' = unregDone \cup {c}
               /\ IF Len(send[c]) > 0
                  THEN /\ send' = [send EXCEPT ![c] = Tail(@)]
                       /\ UNCHANGED <<sendClosed, closes>>
                  ELSE IF sendClosed[c]
                  THEN UNCHANGED <<send, sendClosed, closes>>
                  ELSE /\ sendClosed' = [sendClosed EXCEPT ![c] = TRUE]
                       /\ closes' = [closes EXCEPT ![c] = @ + 1]
                       /\ UNCHANGED send
               /\ IF NoConnectionLeft(uc, u)
                  THEN /\ tasks' = tasks \cup {Task("offline", "update", "unreg", c, u, 0)}
                       /\ offlineStarted' = [offlineStarted EXCEPT ![u] = @ + 1]
                  ELSE UNCHANGED <<tasks, offlineStarted>>
          ELSE UNCHANGED <<clients, userConnections, unregDone, send, sendClosed,
                           closes, tasks, offlineStarted>>
    /\ UNCHANGED <<register, userStatus, hub, conn, readPump, writePump, crashed,
                   dbVars, nextIn, sent, offlineSet, offlineBcast, returned,
                   fullSeen, kicked>>

(* -------------------------- presence goroutines ------------------------- *)

\* updateChatsWithOnlineStatus over GetUserChats(u): the threads of u with
\* another participant whose presence record says online.
OnlineChatsGiven(status, u) ==
    {t.id : t \in {x \in chat_threads :
        /\ u \in getChatParticipants(x.id)
        /\ \E p \in getChatParticipants(x.id) \ {u} : status[p] = "online"}}

\* The same over the hub's presence map.
OnlineChats(u) == OnlineChatsGiven(userStatus, u)

\* GetUserChats, updateChatsWithOnlineStatus and SendChatListToUser, up to
\* the SendToUser call (the two reads are taken as one step).
ChatListBuild(t) ==
    /\ t.kind = "chatlist"
    /\ t.pc = "build"
    /\ tasks' = (tasks \ {t}) \cup
          {[t EXCEPT !.pc = "snap", !.users = <<t.u>>,
                     !.frame = Frame("chat_list", t.u, 0, 0, FALSE, {}, OnlineChats(t.u))]}
    /\ UNCHANGED <<hubVars, sessVars, crashed, dbVars, nextIn, histVars>>

\* updateUserStatus, called by the offline goroutine of handleUnregister and
\* by handleUserStatusUpdate.
UpdateUserStatus(t) ==
    /\ t.kind \in {"offline", "statusUpdate"}
    /\ t.pc = "update"
    /\ userStatus' = [userStatus EXCEPT ![t.u] = IF t.kind = "offline" \/ ~t.frame.on
                                                 THEN "offline" ELSE "online"]
    /\ tasks' = (tasks \ {t}) \cup
          {[t EXCEPT !.pc = "related",
                     !.frame = Frame("status", t.u, 0, 0,
                                     t.kind # "offline" /\ t.frame.on, {}, {})]}
    /\ offlineSet' = IF t.kind = "offline"
                     THEN [offlineSet EXCEPT ![t.u] = @ + 1] ELSE offlineSet
    /\ UNCHANGED <<clients, userConnections, register, unregister, hub, sessVars,
                   crashed, dbVars, nextIn, sent, closes, unregDone, offlineStarted,
                   offlineBcast, returned, fullSeen, kicked>>

\* broadcastUserStatus: getRelatedUsers, go SendToUsers(related, status frame),
\* and one chat-list goroutine per related user.
BroadcastUserStatus(t) ==
    /\ t.kind \in {"offline", "statusUpdate", "status"}
    /\ t.pc = "related"
    /\ LET related == getRelatedUsers(t.u) IN
       tasks' = (tasks \ {t}) \cup SendToUsers(t, related, t.frame) \cup
          {[Task("chatlist", "build", t.org, t.c, v, t.q) EXCEPT !.rec = TRUE] :
               v \in related}
    /\ offlineBcast' = IF t.kind = "offline"
                       THEN [offlineBcast EXCEPT ![t.u] = @ + 1] ELSE offlineBcast
    /\ UNCHANGED <<hubVars, sessVars, crashed, dbVars, nextIn, sent, closes,
                   unregDone, offlineStarted, offlineSet, returned, fullSeen, kicked>>

\* GetOnlineUsers
GetOnlineUsers_Unfiltered(v) == {u \in Users : userStatus[u] = "online" /\ u # v}

GetOnlineUsers(v) ==
    {u \in Users : userStatus[u] = "online" /\ u # v /\ u \in getRelatedUsers(v)}

\* SendOnlineUsersToUser, up to the SendToUser call.
OnlineUsersBuild(t) ==
    /\ t.kind = "online_users"
    /\ t.pc = "build"
    /\ tasks' = (tasks \ {t}) \cup
          {[t EXCEPT !.pc = "snap", !.users = <<t.u>>,
                     !.frame = Frame("online_users", t.u, 0, 0, FALSE,
                                     GetOnlineUsers(t.u), {})]}
    /\ UNCHANGED <<hubVars, sessVars, crashed, dbVars, nextIn, histVars>>

(* ------------------------- chat and gif messages ------------------------ *)

\* Which resolver SaveMessageAndGetIDs runs: handleChatMessage passes the
\* message's group id, handleGifMessage passes "" when a recipient is given.
UsesGroupThread(t) == IF t.kind = "chat" THEN t.grp # 0 ELSE t.rcpt = ""

\* The row of the private find-or-create history.
Returned(t, chat) == [q |-> t.q, pair |-> {t.u, t.rcpt}, chat |-> chat]

\* The first statement of the transaction: the SELECT of the resolver.  It
\* opens the read snapshot; a thread found is what the resolver returns.
TxFind(t) ==
    /\ t.kind \in {"chat", "gif", "rest_private"}
    /\ t.pc = "find"
    /\ LET found == IF t.kind # "rest_private" /\ UsesGroupThread(t)
                    THEN GroupThreads(t.grp)
                    ELSE PrivateThreads(t.u, t.rcpt) IN
       IF found = {}
       THEN /\ tasks' = (tasks \ {t}) \cup {[t EXCEPT !.pc = "write", !.chat = 0]}
            /\ UNCHANGED returned
       ELSE \E id \in found :
            /\ tasks' = (tasks \ {t}) \cup
                  (IF t.kind = "rest_private"
                   THEN {}
                   ELSE {[t EXCEPT !.pc = "write", !.chat = id]})
            /\ returned' = IF t.kind # "rest_private" /\ UsesGroupThread(t)
                           THEN returned
                           ELSE returned \cup {Returned(t, id)}
    /\ UNCHANGED <<hubVars, sessVars, crashed, dbVars, nextIn, sent, closes,
                   unregDone, offlineStarted, offlineSet, offlineBcast, fullSeen,
                   kicked>>

\* The rows a missing thread is created with.  A private thread needs two
\* distinct existing users (primary key and foreign key of chat_participants).
CanCreate(t) ==
    \/ t.kind # "rest_private" /\ UsesGroupThread(t) /\ t.grp \in groups
    \/ ~(t.kind # "rest_private" /\ UsesGroupThread(t))
       /\ t.rcpt \in Users /\ t.rcpt # t.u

CreatedThread(t) ==
    IF t.kind # "rest_private" /\ UsesGroupThread(t)
    THEN [id |-> NewThreadId, is_group |-> TRUE, group_id |-> t.grp]
    ELSE [id |-> NewThreadId, is_group |-> FALSE, group_id |-> 0]

CreatedParticipants(t) ==
    IF t.kind # "rest_private" /\ UsesGroupThread(t)
    THEN {<<NewThreadId, r[2]>> : r \in {x \in group_memberships : x[1] = t.grp}}
    ELSE {<<NewThreadId, t.u>>, <<NewThreadId, t.rcpt>>}

\* The row SaveMessageAndGetIDs inserts.
MessageRow(t, chat) ==
    [id |-> NewMessageId, chat_id |-> chat, sender_id |-> t.u, q |-> t.q,
     c |-> t.c, type |-> t.kind]

\* sendMessageToRecipients / the tail of handleGifMessage, after the commit.
AfterSave(t, chat) ==
    LET f == Frame(t.kind, t.u, NewMessageId, chat, FALSE, {}, {}) IN
    IF t.rcpt # ""
    THEN {[t EXCEPT !.pc = "snap", !.chat = chat, !.frame = f,
                    !.users = <<t.rcpt, t.u>>]}
    ELSE IF t.kind = "chat" /\ t.grp # 0
    THEN {[t EXCEPT !.pc = "fanout", !.chat = chat, !.frame = f]}
    ELSE {}

\* The writes of the transaction and its commit: the thread and its
\* participants when none was found, the message row.  A snapshot that is
\* behind the store makes the first write fail and the handler returns.
TxWrite(t) ==
    /\ t.kind \in {"chat", "gif"}
    /\ t.pc = "write"
    /\ IF TxBusy(t) \/ (t.chat = 0 /\ ~CanCreate(t))
       THEN /\ tasks' = tasks \ {t}
            /\ UNCHANGED <<chat_threads, chat_participants, messages, returned>>
       ELSE LET chat == IF t.chat = 0 THEN NewThreadId ELSE t.chat IN
            /\ chat_threads' = IF t.chat = 0
                               THEN chat_threads \cup {CreatedThread(t)}
                               ELSE chat_threads
            /\ chat_participants' = IF t.chat = 0
                                    THEN chat_participants \cup CreatedParticipants(t)
                                    ELSE chat_participants
            /\ messages' = Append(messages, MessageRow(t, chat))
            /\ returned' = IF t.chat = 0 /\ ~UsesGroupThread(t)
                           THEN returned \cup {Returned(t, chat)}
                           ELSE returned
            /\ tasks' = MarkStale(tasks \ {t}) \cup AfterSave(t, chat)
    /\ UNCHANGED <<hubVars, sessVars, crashed, group_memberships, followers,
                   nextIn, sent, closes, unregDone, offlineStarted, offlineSet,
                   offlineBcast, fullSeen, kicked>>

\* sendMessageToRecipients for a group message: getChatParticipants, then
\* SendToUsers.
GroupFanout(t) ==
    /\ t.kind = "chat"
    /\ t.pc = "fanout"
    /\ tasks' = (tasks \ {t}) \cup
                SendToUsers(t, getChatParticipants(t.chat), t.frame)
    /\ UNCHANGED <<hubVars, sessVars, crashed, dbVars, nextIn, histVars>>

\* GetOrCreatePrivateChat when no thread was found: create it and commit.
RestPrivateWrite(t) ==
    /\ t.kind = "rest_private"
    /\ t.pc = "write"
    /\ IF TxBusy(t) \/ ~CanCreate(t)
       THEN /\ tasks' = tasks \ {t}
            /\ UNCHANGED <<chat_threads, chat_participants, returned>>
       ELSE /\ chat_threads' = chat_threads \cup {CreatedThread(t)}
            /\ chat_participants' = chat_participants \cup CreatedParticipants(t)
            /\ returned' = returned \cup {Returned(t, NewThreadId)}
            /\ tasks' = MarkStale(tasks \ {t})
    /\ UNCHANGED <<hubVars, sessVars, crashed, messages, group_memberships,
                   followers, nextIn, sent, closes, unregDone, offlineStarted,
                   offlineSet, offlineBcast, fullSeen, kicked>>

(* ------------------------ join-group / leave-group ---------------------- *)

\* handleJoinGroup: the transaction's SELECT of the group's thread.
JoinFind(t) ==
    /\ t.kind = "join"
    /\ t.pc = "find"
    /\ tasks' = (tasks \ {t}) \cup
          {[t EXCEPT !.pc = IF GroupThreads(t.grp) = {} THEN "write" ELSE "add"]}
    /\ UNCHANGED <<hubVars, sessVars, crashed, dbVars, nextIn, histVars>>

\* handleJoinGroup: no thread was found: create it with the group's members
\* and its creator, commit.  Every error is ignored and the handler goes on.
JoinCreate(t) ==
    /\ t.kind = "join"
    /\ t.pc = "write"
    /\ IF TxBusy(t) \/ t.grp \notin groups
       THEN /\ tasks' = (tasks \ {t}) \cup {[t EXCEPT !.pc = "add", !.stale = FALSE]}
            /\ UNCHANGED <<chat_threads, chat_participants>>
       ELSE /\ chat_threads' = chat_threads \cup
                  {[id |-> NewThreadId, is_group |-> TRUE, group_id |-> t.grp]}
            /\ chat_participants' = chat_participants \cup
                  {<<NewThreadId, r[2]>> : r \in {x \in group_memberships : x[1] = t.grp}}
                  \cup {<<NewThreadId, creator_id(t.grp)>>}
            /\ tasks' = MarkStale(tasks \ {t}) \cup {[t EXCEPT !.pc = "add"]}
    /\ UNCHANGED <<hubVars, sessVars, crashed, messages, group_memberships,
                   followers, nextIn, histVars>>

\* AddUserToGroupChat: the SELECT of the group's thread and the INSERT OR
\* IGNORE of (thread, user), outside any transaction; then sendChatList
\* builds its reply.
AddUserToGroupChat(t) ==
    /\ t.kind = "join"
    /\ t.pc = "add"
    /\ \E ids \in FirstRow(GroupThreads(t.grp)) :
       LET rows == {<<id, t.u>> : id \in ids} IN
       /\ chat_participants' = chat_participants \cup rows
       /\ tasks' = (IF rows \subseteq chat_participants
                    THEN tasks \ {t} ELSE MarkStale(tasks \ {t}))
                   \cup {[t EXCEPT !.pc = "reply",
                             !.frame = Frame("chat_list", t.u, 0, 0, FALSE, {}, {})]}
    /\ UNCHANGED <<hubVars, sessVars, crashed, chat_threads, messages,
                   group_memberships, followers, nextIn, histVars>>

\* RemoveUserFromGroupChat: the SELECT of the group's thread and the DELETE
\* of (thread, user), outside any transaction; then sendChatList builds its
\* reply.
RemoveUserFromGroupChat(t) ==
    /\ t.kind = "leave"
    /\ t.pc = "remove"
    /\ \E ids \in FirstRow(GroupThreads(t.grp)) :
       LET rows == {<<id, t.u>> : id \in ids} IN
       /\ chat_participants' = chat_participants \ rows
       /\ tasks' = (IF rows \cap chat_participants = {}
                    THEN tasks \ {t} ELSE MarkStale(tasks \ {t}))
                   \cup {[t EXCEPT !.pc = "reply",
                             !.frame = Frame("chat_list", t.u, 0, 0, FALSE, {}, {})]}
    /\ UNCHANGED <<hubVars, sessVars, crashed, chat_threads, messages,
                   group_memberships, followers, nextIn, histVars>>

\* sendChatList: c.send <- b, a plain channel send.  It waits while the
\* queue is full and panics when the queue is closed.
sendChatList(t) ==
    /\ t.pc = "reply"
    /\ \/ /\ sendClosed[t.c]
          /\ tasks' = tasks \ {t}
          /\ crashed' = (crashed \/ ~t.rec)
          /\ UNCHANGED <<send, sent>>
       \/ /\ ~sendClosed[t.c]
          /\ Len(send[t.c]) < SendCap
          /\ send' = [send EXCEPT ![t.c] = Append(@, t.frame)]
          /\ sent' = [sent EXCEPT ![t.c] = Append(@, t.frame)]
          /\ tasks' = tasks \ {t}
          /\ UNCHANGED crashed
    /\ UNCHANGED <<hubVars, conn, readPump, writePump, sendClosed, dbVars, nextIn,
                   closes, unregDone, offlineStarted, offlineSet, offlineBcast,
                   returned, fullSeen, kicked>>

(* -------------------------------- CreateGroup --------------------------- *)

\* group.CreateGroup: one transaction whose first statement is a write: the
\* group row, its thread, the creator as participant and as member, commit.
\* The group gets a fresh id.
CreateGroup(t) ==
    /\ t.kind = "create_group"
    /\ t.grp \notin groups
    /\ creator_id(t.grp) = t.u
    /\ groups' = groups \cup {t.grp}
    /\ chat_threads' = chat_threads \cup
          {[id |-> NewThreadId, is_group |-> TRUE, group_id |-> t.grp]}
    /\ chat_participants' = chat_participants \cup {<<NewThreadId, t.u>>}
    /\ group_memberships' = group_memberships \cup {<<t.grp, t.u>>}
    /\ tasks' = MarkStale(tasks \ {t})
    /\ UNCHANGED <<hubVars, sessVars, crashed, messages, followers, nextIn,
                   histVars, typingVars, readVars, errVars>>

(* ----------------------------- KickMemberHandler ------------------------ *)

\* The reads of the kick transaction and its permission checks: the target
\* is a member and not the creator, the caller is the creator (the one admin).
KickFind(t) ==
    /\ t.kind = "kick"
    /\ t.pc = "find"
    /\ tasks' = (tasks \ {t}) \cup
          (IF /\ <<t.grp, t.rcpt>> \in group_memberships
              /\ t.u = creator_id(t.grp)
              /\ t.rcpt # creator_id(t.grp)
           THEN {[t EXCEPT !.pc = "write"]}
           ELSE {})
    /\ UNCHANGED <<hubVars, sessVars, crashed, dbVars, nextIn, histVars>>

\* The writes of the kick transaction and its commit: the membership row and
\* (removeUserFromGroupChatTx) the participant row of the group's thread.
KickWrite(t) ==
    /\ t.kind = "kick"
    /\ t.pc = "write"
    /\ IF TxBusy(t) \/ GroupThreads(t.grp) = {}
       THEN /\ tasks' = tasks \ {t}
            /\ UNCHANGED <<group_memberships, chat_participants, kicked>>
       ELSE /\ group_memberships' = group_memberships \ {<<t.grp, t.rcpt>>}
            /\ \E ids \in FirstRow(GroupThreads(t.grp)) :
                  chat_participants' = chat_participants \ {<<id, t.rcpt>> : id \in ids}
            /\ kicked' = kicked \cup {[g |-> t.grp, u |-> t.rcpt, at |-> nextIn]}
            /\ tasks' = MarkStale(tasks \ {t})
    /\ UNCHANGED <<hubVars, sessVars, crashed, chat_threads, messages, followers,
                   nextIn, sent, closes, unregDone, offlineStarted, offlineSet,
                   offlineBcast, returned, fullSeen>>

(* ---------------------------- inbound requests -------------------------- *)

\* handleMessage: the goroutine readPump starts for an inbound frame, at its
\* first access to shared state.  on: the is_online flag of a status update.
\* isValidGifMessage: the content names tenor.com.  The inbound kind
\* "gif_invalid" stands for a gif frame whose content does not.
isValidGifMessage_Any(kind) == TRUE

isValidGifMessage(kind) == kind # "gif_invalid"

Handler(c, kind, rcpt, grp, on, q) ==
    LET u == userID(c)
        h(k, pc) == [Task(k, pc, "in", c, u, q) EXCEPT
                        !.rcpt = rcpt, !.grp = grp, !.rec = TRUE] IN
    CASE kind = "chat" -> {h("chat", "find")}
      [] kind \in {"gif", "gif_invalid"} ->
            IF ~isValidGifMessage(kind)
            THEN {[h("gif_error", "snap") EXCEPT !.users = <<u>>,
                     !.frame = Frame("gif_error", u, 0, 0, FALSE, {}, {})]}
            ELSE IF rcpt = "" /\ grp = 0 THEN {} ELSE {h("gif", "find")}
      [] kind = "notification" ->
            IF rcpt = "" THEN {} ELSE {h("notification", "save")}
      [] kind = "join_group" -> IF grp = 0 THEN {} ELSE {h("join", "find")}
      [] kind = "leave_group" -> IF grp = 0 THEN {} ELSE {h("leave", "remove")}
      [] kind = "user_status_update" ->
            {[h("statusUpdate", "update") EXCEPT
                 !.frame = Frame("status", u, 0, 0, on, {}, {})]}
      [] kind = "online_users" -> {h("online_users", "build")}
      [] kind = "chat_list" -> {h("chatlist", "build")}
      [] OTHER -> {}

\* readPump: a frame is read and handed to its own goroutine.
ReadMessage(c, kind, rcpt, grp, on) ==
    /\ readPump[c] = "run"
    /\ conn[c] = "open"
    /\ nextIn < MaxInbound
    /\ nextIn' = nextIn + 1
    /\ tasks' = tasks \cup Handler(c, kind, rcpt, grp, on, nextIn + 1)
    /\ UNCHANGED <<hubVars, sessVars, crashed, dbVars, histVars>>

\* A REST request arrives: GetOrCreatePrivateChat(u, rcpt) or the kick of
\* rcpt from grp by u.
RestRequest(kind, u, rcpt, grp) ==
    /\ nextIn < MaxInbound
    /\ nextIn' = nextIn + 1
    /\ tasks' = tasks \cup
          {[Task(kind, "find", "in", "", u, nextIn + 1) EXCEPT
               !.rcpt = rcpt, !.grp = grp]}
    /\ UNCHANGED <<hubVars, sessVars, crashed, dbVars, histVars>>

(* --------------------------------- typing ------------------------------- *)

\* readPump hands a typing frame for conversation chat to its own goroutine
\* (handleTypingMessage); the frame's user is the session's.
ReadTyping(c, chat, on) ==
    /\ readPump[c] = "run"
    /\ conn[c] = "open"
    /\ nextIn < MaxInbound
    /\ nextIn' = nextIn + 1
    /\ tasks' = tasks \cup
          {[Task("typing", "fanout", "in", c, userID(c), nextIn + 1) EXCEPT
               !.chat = chat, !.rec = TRUE,
               !.frame = Frame("typing", userID(c), 0, chat, on, {}, {})]}
    /\ typingIn' = Append(typingIn, [u |-> userID(c), chat |-> chat, on |-> on])
    /\ UNCHANGED <<hubVars, sessVars, crashed, dbVars, histVars, groups,
                   typingUsers, readVars, errVars>>

\* HandleTyping: getChatParticipants and SendToUsers, which starts one
\* goroutine per participant and returns.
TypingFanout(t) ==
    /\ t.kind = "typing"
    /\ t.pc = "fanout"
    /\ tasks' = (tasks \ {t}) \cup {[t EXCEPT !.pc = "update"]}
                \cup SendToUsers(t, getChatParticipants(t.chat), t.frame)
    /\ UNCHANGED <<hubVars, sessVars, crashed, dbVars, nextIn, histVars, extVars>>

\* The users typing in a conversation; none when the conversation has no
\* inner map.
Typing(chat) == IF chat \in DOMAIN typingUsers THEN typingUsers[chat] ELSE {}

\* HandleTyping, under the hub's lock: the inner map is made when missing;
\* typing=true stores the user, typing=false deletes the user and then the
\* inner map if it is empty.
TypingUpdate(t) ==
    /\ t.kind = "typing"
    /\ t.pc = "update"
    /\ LET inner == IF t.frame.on THEN Typing(t.chat) \cup {t.u}
                                   ELSE Typing(t.chat) \ {t.u}
           dom == IF ~t.frame.on /\ inner = {}
                  THEN DOMAIN typingUsers \ {t.chat}
                  ELSE DOMAIN typingUsers \cup {t.chat} IN
       typingUsers' = [k \in dom |-> IF k = t.chat THEN inner ELSE typingUsers[k]]
    /\ tasks' = tasks \ {t}
    /\ UNCHANGED <<hubVars, sessVars, crashed, dbVars, nextIn, histVars, groups,
                   typingIn, readVars, errVars>>

(* ------------------------ read receipts and history --------------------- *)

\* readPump hands a messages_read frame (a batch of message ids of one
\* conversation) or a chat-history request to its own goroutine.
ReadReadsFrame(c, kind, chat, ids) ==
    /\ readPump[c] = "run"
    /\ conn[c] = "open"
    /\ nextIn < MaxInbound
    /\ nextIn' = nextIn + 1
    /\ tasks' = tasks \cup
          {[Task(kind, "find", "in", c, userID(c), nextIn + 1) EXCEPT
               !.chat = chat, !.ids = ids, !.rec = TRUE]}
    /\ inbound' = inbound \cup
          {[q |-> nextIn + 1, kind |-> kind, c |-> c, rcpt |-> ""]}
    /\ UNCHANGED <<hubVars, sessVars, crashed, dbVars, histVars, groups,
                   typingVars, readVars, notifications, responded>>

\* The (message, user) pairs of a batch that have no row.
MissingReads(t) ==
    {<<t.ids[i], t.u>> : i \in 1..Len(t.ids)} \ SeqToSet(message_reads)

\* The row of the read-receipt history: ok: updateReadMessages returned nil;
\* dup: a pair of the batch had a row when it returned; all: every pair had.
ReadResult(t, ok) ==
    [q |-> t.q, ok |-> ok,
     dup |-> \E i \in 1..Len(t.ids) : <<t.ids[i], t.u>> \in SeqToSet(message_reads),
     all |-> MissingReads(t) = {}]

\* notifyChatParticipants, reached when updateReadMessages returned nil.
ReadNotify(t) ==
    SendToUsers(t, getChatParticipants(t.chat),
                Frame("messages_read", t.u, 0, t.chat, FALSE, {}, {}))

\* updateReadMessages: the SELECT COUNT(*) of every pair, all in the read
\* snapshot the first one opens.  When every pair has a row nothing is
\* written and the commit succeeds.
ReadsFind(t) ==
    /\ t.kind = "read"
    /\ t.pc = "find"
    /\ IF MissingReads(t) = {}
       THEN /\ readDone' = readDone \cup {ReadResult(t, TRUE)}
            /\ tasks' = (tasks \ {t}) \cup ReadNotify(t)
       ELSE /\ tasks' = (tasks \ {t}) \cup {[t EXCEPT !.pc = "write"]}
            /\ UNCHANGED readDone
    /\ UNCHANGED <<hubVars, sessVars, crashed, dbVars, nextIn, histVars, groups,
                   typingVars, message_reads, fetched, checked, errVars>>

\* The pairs of the batch without a row, each once, in the order of the batch.
RECURSIVE NewReads(_, _, _)
NewReads(ids, u, have) ==
    IF ids = <<>> THEN <<>>
    ELSE IF <<Head(ids), u>> \in have THEN NewReads(Tail(ids), u, have)
    ELSE <<<<Head(ids), u>>>> \o NewReads(Tail(ids), u, have \cup {<<Head(ids), u>>})

\* updateReadMessages: the INSERTs and the commit.  A snapshot that is behind
\* the store makes the first INSERT fail; the error is returned and
\* handleMessagesRead ends without notifying anyone.
ReadsWrite(t) ==
    /\ t.kind = "read"
    /\ t.pc = "write"
    /\ IF TxBusy(t)
       THEN /\ readDone' = readDone \cup {ReadResult(t, FALSE)}
            /\ tasks' = tasks \ {t}
            /\ UNCHANGED message_reads
       ELSE /\ message_reads' =
                  message_reads \o NewReads(t.ids, t.u, SeqToSet(message_reads))
            /\ readDone' = readDone \cup {ReadResult(t, TRUE)}
            /\ tasks' = MarkStale(tasks \ {t}) \cup ReadNotify(t)
    /\ UNCHANGED <<hubVars, sessVars, crashed, dbVars, nextIn, histVars, groups,
                   typingVars, fetched, checked, errVars>>

\* GetChatMessages: messages LEFT JOIN message_reads ON m.id = mr.message_id.
\* A message comes once with is_read = 0 when no receipt names it, and once
\* per receipt (n times) with is_read = 1 otherwise.
GetChatMessages(chat) ==
    {[id |-> messages[i].id,
      is_read |-> \E r \in SeqToSet(message_reads) : r[1] = messages[i].id,
      n |-> LET k == Cardinality({j \in 1..Len(message_reads) :
                                    message_reads[j][1] = messages[i].id})
            IN IF k = 0 THEN 1 ELSE k] :
        i \in {j \in 1..Len(messages) : messages[j].chat_id = chat}}

\* IsUserChatParticipant: SELECT COUNT(*) FROM chat_participants WHERE
\* chat_id = ? AND user_id = ?, count > 0.
IsUserChatParticipant_Any(u, chat) == TRUE

IsUserChatParticipant(u, chat) == <<chat, u>> \in chat_participants

\* handleChatMessagesRequest: the participant check.  A requester that is
\* not a participant is answered with sendChatMessagesError, which hands the
\* error frame to SendToUser(c.userID).
HistoryCheck(t) ==
    /\ t.kind = "history"
    /\ t.pc = "find"
    /\ checked' = checked \cup
          {[q |-> t.q, c |-> t.c, chat |-> t.chat,
            part |-> t.u \in getChatParticipants(t.chat)]}
    /\ tasks' = (tasks \ {t}) \cup
          (IF IsUserChatParticipant(t.u, t.chat)
           THEN {[t EXCEPT !.pc = "fetch"]}
           ELSE {[t EXCEPT !.pc = "snap", !.users = <<t.u>>,
                     !.frame = Frame("chat_messages_error", t.u, 0, t.chat, FALSE,
                                     {}, {})]})
    /\ UNCHANGED <<hubVars, sessVars, crashed, dbVars, nextIn, histVars, groups,
                   typingVars, message_reads, readDone, fetched, errVars>>

\* handleChatMessagesRequest after the check: GetChatMessages, in a read of
\* its own, and SendChatMessagesToUser(c.userID).
HistoryFetch(t) ==
    /\ t.kind = "history"
    /\ t.pc = "fetch"
    /\ fetched' = fetched \cup
          {[q |-> t.q, u |-> t.u, rows |-> GetChatMessages(t.chat),
            mine |-> {r[1] : r \in {x \in SeqToSet(message_reads) : x[2] = t.u}}]}
    /\ tasks' = (tasks \ {t}) \cup
          {[t EXCEPT !.pc = "snap", !.users = <<t.u>>,
              !.frame = Frame("chat_messages", t.u, 0, t.chat, FALSE, {}, {})]}
    /\ UNCHANGED <<hubVars, sessVars, crashed, dbVars, nextIn, histVars, groups,
                   typingVars, message_reads, readDone, checked, errVars>>

(* ----------------------------- notifications --------------------------- *)

\* handleNotificationMessage: "if err != nil { return }" after the save.
ReturnOnError_Ignored(err) == FALSE

ReturnOnError(err) == err

\* handleNotificationMessage: CreateNotificationAndGetID inserts the row (the
\* recipient must be a user: foreign key) and commits; then the notification
\* goes to the recipient and the acknowledgement to the sender.
NotificationSave(t) ==
    /\ t.kind = "notification"
    /\ t.pc = "save"
    /\ LET err == t.rcpt \notin Users
           id == Len(notifications) + 1 IN
       /\ notifications' = IF err THEN notifications
                           ELSE Append(notifications,
                                   [id |-> id, user_id |-> t.rcpt,
                                    sender_id |-> t.u, q |-> t.q])
       /\ tasks' = (IF err THEN tasks \ {t} ELSE MarkStale(tasks \ {t})) \cup
             (IF ReturnOnError(err) THEN {}
              ELSE {[t EXCEPT !.pc = "snap", !.users = <<t.rcpt, t.u>>,
                        !.frame = Frame("notification", t.u, id, 0, FALSE, {}, {})]})
    /\ UNCHANGED <<hubVars, sessVars, crashed, dbVars, nextIn, histVars, groups,
                   typingVars, readVars, inbound, responded>>

\* The inbound event read in this step is logged.
Logged(kind, c, rcpt) ==
    /\ inbound' = inbound \cup
          {[q |-> nextIn + 1, kind |-> kind, c |-> c, rcpt |-> rcpt]}
    /\ UNCHANGED <<groups, typingVars, readVars, notifications, responded>>

(* ------------------- REST operations that notify ------------------------ *)

\* SendFollowRequest for a public profile: IsFollowing and
\* followRequestExists, then followImmediately.  The handler's goroutine is
\* net/http's, which recovers a panic.
FollowFind(t) ==
    /\ t.kind = "follow"
    /\ t.pc = "find"
    /\ tasks' = (tasks \ {t}) \cup
          (IF <<t.u, t.rcpt>> \in followers
           THEN {}
           ELSE {[t EXCEPT !.pc = "write", !.rec = TRUE]})
    /\ UNCHANGED <<hubVars, sessVars, crashed, dbVars, nextIn, histVars, extVars>>

\* followImmediately: INSERT INTO followers (the pair is UNIQUE),
\* then the call of sendFollowNotification.
FollowWrite(t) ==
    /\ t.kind = "follow"
    /\ t.pc = "write"
    /\ IF <<t.u, t.rcpt>> \in followers
       THEN /\ tasks' = tasks \ {t}
            /\ UNCHANGED followers
       ELSE /\ followers' = followers \cup {<<t.u, t.rcpt>>}
            /\ tasks' = MarkStale(tasks \ {t}) \cup {[t EXCEPT !.pc = "notify"]}
    /\ UNCHANGED <<hubVars, sessVars, crashed, chat_threads, chat_participants,
                   messages, group_memberships, nextIn, histVars, extVars>>

\* The notification a REST operation creates: CreateNotificationAndGetID and
\* the dispatch of SendNotificationToUser.  sendFollowNotification calls it
\* in the handler's goroutine, first for the followee ("notify"), then for
\* the follower ("confirm"), and returns to SendFollowRequest, which returns
\* to the handler; CreateNotificationHandler starts a goroutine of its own
\* for it ("go hub.SendNotificationToUser") and goes on to its response.
CreateNotification(t) ==
    /\ \/ t.kind = "follow" /\ t.pc \in {"notify", "confirm"}
       \/ t.kind = "rest_notification" /\ t.pc = "find"
    /\ LET to == IF t.pc = "confirm" THEN t.u ELSE t.rcpt
           from == IF t.pc = "confirm" THEN t.rcpt ELSE t.u
           err == to \notin Users
           id == Len(notifications) + 1
           push == [t EXCEPT !.pc = "snap", !.users = <<to>>,
                       !.frame = Frame("notification", from, id, 0, FALSE, {}, {})] IN
       /\ notifications' = IF err THEN notifications
                           ELSE Append(notifications,
                                   [id |-> id, user_id |-> to, sender_id |-> from,
                                    q |-> t.q])
       /\ tasks' = (IF err THEN tasks \ {t} ELSE MarkStale(tasks \ {t})) \cup
             (IF t.kind = "follow"
              THEN (IF err THEN {[t EXCEPT !.pc = "respond"]}
                    ELSE {[push EXCEPT !.then = IF t.pc = "notify" THEN "confirm"
                                                ELSE "respond"]})
              ELSE (IF err THEN {}
                    ELSE {[t EXCEPT !.pc = "respond", !.rec = TRUE],
                          [push EXCEPT !.kind = "push"]}))
    /\ UNCHANGED <<hubVars, sessVars, crashed, dbVars, nextIn, histVars, groups,
                   typingVars, readVars, inbound, responded>>

\* The handler writes its success response and returns.
Respond(t) ==
    /\ t.pc = "respond"
    /\ responded' = responded \cup {[q |-> t.q, kind |-> t.kind]}
    /\ tasks' = tasks \ {t}
    /\ UNCHANGED <<hubVars, sessVars, crashed, dbVars, nextIn, histVars, groups,
                   typingVars, readVars, notifications, inbound>>

(* ------------------------------ initial states -------------------------- *)

\* NewHub, and no session yet.
InitHub ==
    /\ clients = {}
    /\ userConnections = [u \in Users |-> <<>>]
    /\ register = <<>>
    /\ unregister = <<>>
    /\ userStatus = [u \in Users |-> "none"]
    /\ hub = [pc |-> "idle", c |-> ""]
    /\ conn = [c \in Sessions |-> "none"]
    /\ readPump = [c \in Sessions |-> "none"]
    /\ writePump = [c \in Sessions |-> "none"]
    /\ send = [c \in Sessions |-> <<>>]
    /\ sendClosed = [c \in Sessions |-> FALSE]

\* The hub after the sessions of S have connected, one after the other, and
\* every goroutine of their registration has ended and their queues drained.
InitHubWith(S) ==
    /\ clients = S
    /\ userConnections =
          [u \in Users |->
              IF u = "u1"
              THEN (IF "s1" \in S THEN <<"s1">> ELSE <<>>) \o
                   (IF "s2" \in S THEN <<"s2">> ELSE <<>>)
              ELSE IF u = "u2" THEN (IF "s3" \in S THEN <<"s3">> ELSE <<>>)
              ELSE (IF "s4" \in S THEN <<"s4">> ELSE <<>>)]
    /\ register = <<>>
    /\ unregister = <<>>
    /\ userStatus = [u \in Users |->
                        IF \E c \in S : userID(c) = u THEN "online" ELSE "none"]
    /\ hub = [pc |-> "idle", c |-> ""]
    /\ conn = [c \in Sessions |-> IF c \in S THEN "open" ELSE "none"]
    /\ readPump = [c \in Sessions |-> IF c \in S THEN "run" ELSE "none"]
    /\ writePump = [c \in Sessions |-> IF c \in S THEN "run" ELSE "none"]
    /\ send = [c \in Sessions |-> <<>>]
    /\ sendClosed = [c \in Sessions |-> FALSE]

InitRun ==
    /\ tasks = {}
    /\ crashed = FALSE
    /\ nextIn = 0
    /\ sent = [c \in Sessions |-> <<>>]
    /\ closes = [c \in Sessions |-> 0]
    /\ unregDone = {}
    /\ offlineStarted = [u \in Users |-> 0]
    /\ offlineSet = [u \in Users |-> 0]
    /\ offlineBcast = [u \in Users |-> 0]
    /\ returned = {}
    /\ fullSeen = {}
    /\ kicked = {}
    /\ typingUsers = [k \in {} |-> {}]
    /\ typingIn = <<>>
    /\ message_reads = <<>>
    /\ readDone = {}
    /\ fetched = {}
    /\ checked = {}
    /\ notifications = <<>>
    /\ inbound = {}
    /\ responded = {}

\* A store with users only: no thread, no group member, no follow edge.
InitStoreEmpty ==
    /\ chat_threads = {}
    /\ chat_participants = {}
    /\ messages = <<>>
    /\ group_memberships = {}
    /\ followers = {}
    /\ groups = {}

\* group.CreateGroup has run for both groups (thread 1 for group 1, thread 2
\* for group 2, the creator a member and a participant), u2 and u3 have
\* joined group 1 (AddUserToGroupTx), and u1 and u2 follow each other.
InitStoreGroups ==
    /\ chat_threads = {[id |-> 1, is_group |-> TRUE, group_id |-> 1],
                       [id |-> 2, is_group |-> TRUE, group_id |-> 2]}
    /\ chat_participants = {<<1, "u1">>, <<1, "u2">>, <<1, "u3">>, <<2, "u2">>}
    /\ messages = <<>>
    /\ group_memberships = {<<1, "u1">>, <<1, "u2">>, <<1, "u3">>, <<2, "u2">>}
    /\ followers = {<<"u1", "u2">>, <<"u2", "u1">>}
    /\ groups = Groups

\* A store with users and one follow edge, u1 -> u2; u3 has none.
InitStoreFollows ==
    /\ chat_threads = {}
    /\ chat_participants = {}
    /\ messages = <<>>
    /\ group_memberships = {}
    /\ followers = {<<"u1", "u2">>}
    /\ groups = {}

\* No unrecovered panic has ended the process.
Running == ~crashed

(* ---------------- the thread resolver under concurrent callers ---------- *)

InitThread == InitHubWith({"s1", "s3"}) /\ InitRun /\ InitStoreEmpty

NextThread ==
    \/ Running /\ \E r \in {"u2", "u3"} : ReadMessage("s1", "chat", r, 0, FALSE) /\ UNCHANGED extVars
    \/ Running /\ ReadMessage("s3", "gif", "u1", 0, FALSE) /\ UNCHANGED extVars
    \/ Running /\ \E u \in {"u1", "u2"} : RestRequest("rest_private", u, "u2", 0) /\ UNCHANGED extVars
    \/ Running /\ \E t \in tasks : TxFind(t) /\ UNCHANGED extVars
    \/ Running /\ \E t \in tasks : TxWrite(t) /\ UNCHANGED extVars
    \/ Running /\ \E t \in tasks : RestPrivateWrite(t) /\ UNCHANGED extVars
    \/ Running /\ \E t \in tasks : SendSnap(t) /\ UNCHANGED extVars
    \/ Running /\ \E t \in tasks : SendCheck(t) /\ UNCHANGED extVars
    \/ Running /\ \E t \in tasks : SendPut(t) /\ UNCHANGED extVars

SpecThread == InitThread /\ [][NextThread]_vars

\* The non-group threads whose participants are exactly a and b.
PairThreads(a, b) ==
    {t.id : t \in {x \in chat_threads :
        ~x.is_group /\ getChatParticipants(x.id) = {a, b}}}

\* C1: for every pair of distinct users and every interleaving of the
\* find-or-create calls for it (chat and gif sends in either direction, the
\* REST call), the store holds at most one non-group thread whose participants
\* are exactly the pair, and every call that returned successfully returned
\* that thread.
C1_OneThreadPerPair ==
    \A a \in Users, b \in Users :
        a # b =>
            /\ Cardinality(PairThreads(a, b)) <= 1
            /\ \A r \in returned : r.pair = {a, b} => r.chat \in PairThreads(a, b)

\* C1's case: a call for {u1, u2} found no thread and stands before its
\* INSERT while another call has created the thread and returned it.
C1_Witness ==
    /\ \E t \in tasks :
          t.pc = "write" /\ t.chat = 0 /\ t.stale /\ {t.u, t.rcpt} = {"u1", "u2"}
    /\ \E r \in returned : r.pair = {"u1", "u2"}
    /\ PairThreads("u1", "u2") # {}

(* ------------------ sessions connecting and disconnecting --------------- *)

\* Two sessions of u1: s2 is registered, s1 connects; both may go away.
HubSessions == {"s1", "s2"}

InitHubSpec == InitHubWith({"s2"}) /\ InitRun /\ InitStoreFollows

\* The steps the hub, the pumps and the goroutines take by themselves.
HubStep ==
    \/ Running /\ \E c \in Sessions : ReadPumpExit(c) /\ UNCHANGED extVars
    \/ Running /\ \E c \in Sessions : WritePumpWrite(c) /\ UNCHANGED extVars
    \/ Running /\ \E c \in Sessions : WritePumpWriteFails(c) /\ UNCHANGED extVars
    \/ Running /\ \E c \in Sessions : WritePumpClosed(c) /\ UNCHANGED extVars
    \/ Running /\ \E c \in Sessions : WritePumpPingFails(c) /\ UNCHANGED extVars
    \/ Running /\ HandleRegister /\ UNCHANGED extVars
    \/ Running /\ HandleRegisterStatus /\ UNCHANGED extVars
    \/ Running /\ HandleUnregister /\ UNCHANGED extVars
    \/ Running /\ \E t \in tasks : ChatListBuild(t) /\ UNCHANGED extVars
    \/ Running /\ \E t \in tasks : UpdateUserStatus(t) /\ UNCHANGED extVars
    \/ Running /\ \E t \in tasks : BroadcastUserStatus(t) /\ UNCHANGED extVars
    \/ Running /\ \E t \in tasks : SendSnap(t) /\ UNCHANGED extVars
    \/ Running /\ \E t \in tasks : SendCheck(t) /\ UNCHANGED extVars
    \/ Running /\ \E t \in tasks : SendPut(t) /\ UNCHANGED extVars

NextHub ==
    \/ Running /\ \E c \in HubSessions : ServeWS(c) /\ UNCHANGED extVars
    \/ Running /\ \E c \in HubSessions : PeerGone(c) /\ UNCHANGED extVars
    \/ HubStep

SpecHub == InitHubSpec /\ [][NextHub]_vars

\* The same sessions, with every step of the hub loop, of the pumps and of the
\* goroutines taken in the end; the peer is under no obligation.
SpecTeardown == InitHubSpec /\ [][NextHub]_vars /\ WF_vars(HubStep)

\* C17: a session whose connection has failed (read deadline, transport
\* error on either side) is in the end out of the registry with both of its
\* pumps ended, as long as the process runs.
C17_FailedSessionTornDown ==
    \A c \in HubSessions :
        (conn[c] = "closed") ~>
            (crashed \/ (c \notin clients /\ readPump[c] = "done"
                                          /\ writePump[c] = "done"))

\* C26: the step of handleRegister that follows the registration of a
\* session whose user already had a registered session leaves the presence
\* record as it is and starts no presence broadcast; only a first connection
\* marks the user online and starts the broadcast.
C26_PresenceOnFirstConnectionOnly ==
    [][(hub.pc = "registered" /\ hub'.pc = "idle"
            /\ Len(userConnections[userID(hub.c)]) > 1)
        => /\ userStatus' = userStatus
           /\ \A t \in tasks' \ tasks : t.kind # "status"]_vars

\* C27: when the hub has handled every registration and unregistration
\* handed to it and every task they started has run, a user who has a
\* registered session (and sent no presence update) is marked online,
\* whatever sessions of the user were unregistered before.
C27_RegisteredUserOnline ==
    (hub.pc = "idle" /\ register = <<>> /\ unregister = <<>> /\ tasks = {})
    => \A u \in Users :
          (\E c \in clients : userID(c) = u) => userStatus[u] = "online"

\* How often session c occurs in the connection list of user u.
Occurrences(u, c) ==
    Cardinality({i \in 1..Len(userConnections[u]) : userConnections[u][i] = c})

\* C3: whenever the hub is not inside handleRegister's or handleUnregister's
\* critical section, a session is in the registry exactly when it occurs
\* exactly once in the connection list of its own user, and it occurs in the
\* list of no other user.
C3_RegistryMatchesLists ==
    \A c \in Sessions :
        /\ Occurrences(userID(c), c) = (IF c \in clients THEN 1 ELSE 0)
        /\ \A u \in Users \ {userID(c)} : Occurrences(u, c) = 0

\* C3's case: s1 registered next to s2, then s2 was unregistered.
C3_Witness ==
    /\ "s2" \in unregDone
    /\ clients = {"s1"}
    /\ userConnections["u1"] = <<"s1">>

\* C6: the outbound queue of a session is closed exactly once, by
\* handleUnregister, once that has removed the session; nothing closes it
\* before.
C6_QueueClosedOnce ==
    \A c \in Sessions :
        /\ closes[c] <= 1
        /\ closes[c] = 1 => c \in unregDone
        /\ c \in unregDone => closes[c] = 1 /\ sendClosed[c]

\* The offline goroutines of user u that stand before the given step.
OfflinePending(u, pc) ==
    Cardinality({t \in tasks : t.kind = "offline" /\ t.u = u /\ t.pc = pc})

\* C7: an offline goroutine is started exactly in the steps that take the
\* last registered session of a user out of the registry (not when another
\* session of the user stays registered, not for a request naming a session
\* already removed); each of them sets the presence record to offline once
\* and starts the offline broadcast once, and nothing else sets the record
\* to offline.
C7_OfflineOnLastUnregister ==
    /\ [][\A u \in Users :
            LET had == \E c \in clients : userID(c) = u
                has == \E c \in clients' : userID(c) = u IN
            /\ offlineStarted'[u] =
                  offlineStarted[u] + (IF had /\ ~has THEN 1 ELSE 0)
            /\ (userStatus'[u] = "offline" /\ userStatus[u] # "offline")
                  => offlineSet'[u] = offlineSet[u] + 1]_vars
    /\ [](\A u \in Users :
            /\ offlineStarted[u] = offlineSet[u] + OfflinePending(u, "update")
            /\ offlineSet[u] = offlineBcast[u] + OfflinePending(u, "related"))

\* C7's case: s1 was unregistered while s2 stayed, then s2, the last one;
\* one offline goroutine has run to its end.
C7_Witness ==
    /\ unregDone = {"s1", "s2"}
    /\ offlineStarted["u1"] = 1
    /\ offlineBcast["u1"] = 1
    /\ userStatus["u1"] = "offline"

(* ----------------------- a session that does not keep up ---------------- *)

\* s2 is the one session; it asks for its chat list again and again.
InitFull == InitHubWith({"s2"}) /\ InitRun /\ InitStoreFollows

\* The steps the program takes by itself: the hub, the pumps, the goroutines.
FullStep ==
    \/ Running /\ \E c \in Sessions : ReadPumpExit(c) /\ UNCHANGED extVars
    \/ Running /\ \E c \in Sessions : WritePumpWrite(c) /\ UNCHANGED extVars
    \/ Running /\ \E c \in Sessions : WritePumpWriteFails(c) /\ UNCHANGED extVars
    \/ Running /\ \E c \in Sessions : WritePumpClosed(c) /\ UNCHANGED extVars
    \/ Running /\ \E c \in Sessions : WritePumpPingFails(c) /\ UNCHANGED extVars
    \/ Running /\ HandleUnregister /\ UNCHANGED extVars
    \/ Running /\ \E t \in tasks : UnregisterSend(t) /\ UNCHANGED extVars
    \/ Running /\ \E t \in tasks : ChatListBuild(t) /\ UNCHANGED extVars
    \/ Running /\ \E t \in tasks : UpdateUserStatus(t) /\ UNCHANGED extVars
    \/ Running /\ \E t \in tasks : BroadcastUserStatus(t) /\ UNCHANGED extVars
    \/ Running /\ \E t \in tasks : SendSnap(t) /\ UNCHANGED extVars
    \/ Running /\ \E t \in tasks : SendCheck(t) /\ UNCHANGED extVars
    \/ Running /\ \E t \in tasks : SendPut(t) /\ UNCHANGED extVars

NextFull ==
    \/ Running /\ ReadMessage("s2", "chat_list", "", 0, FALSE) /\ UNCHANGED extVars
    \/ Running /\ PeerGone("s2") /\ UNCHANGED extVars
    \/ FullStep

\* Every goroutine that can take a step is scheduled in the end; the peer is
\* under no obligation.
SpecFull == InitFull /\ [][NextFull]_vars /\ WF_vars(FullStep)

\* Session c is torn down.
TornDown(c) ==
    /\ c \notin clients
    /\ Occurrences(userID(c), c) = 0
    /\ sendClosed[c]
    /\ conn[c] = "closed"
    /\ readPump[c] = "done"
    /\ writePump[c] = "done"

\* C4: a session whose outbound queue a producer found full is torn down in
\* the end: out of the registry and of its user's list, queue closed,
\* connection closed, both pumps ended.
C4_FullQueueTornDown ==
    \A c \in Sessions : (c \in fullSeen) ~> TornDown(c)

(* ------------------------- group conversations and kicks ---------------- *)

\* u1 (s1) and u3 (s4) are connected; u2 is a participant without a session.
InitGroup == InitHubWith({"s1", "s4"}) /\ InitRun /\ InitStoreGroups

NextGroup ==
    \/ Running /\ \E r \in {"", "u3"} : ReadMessage("s1", "chat", r, 1, FALSE) /\ UNCHANGED extVars
    \/ Running /\ ReadMessage("s1", "gif", "", 1, FALSE) /\ UNCHANGED extVars
    \/ Running /\ RestRequest("kick", "u1", "u3", 1) /\ UNCHANGED extVars
    \/ Running /\ ReadMessage("s4", "join_group", "", 2, FALSE) /\ UNCHANGED extVars
    \/ Running /\ ReadMessage("s4", "leave_group", "", 2, FALSE) /\ UNCHANGED extVars
    \/ Running /\ \E t \in tasks : TxFind(t) /\ UNCHANGED extVars
    \/ Running /\ \E t \in tasks : TxWrite(t) /\ UNCHANGED extVars
    \/ Running /\ \E t \in tasks : GroupFanout(t) /\ UNCHANGED extVars
    \/ Running /\ \E t \in tasks : KickFind(t) /\ UNCHANGED extVars
    \/ Running /\ \E t \in tasks : KickWrite(t) /\ UNCHANGED extVars
    \/ Running /\ \E t \in tasks : JoinFind(t) /\ UNCHANGED extVars
    \/ Running /\ \E t \in tasks : AddUserToGroupChat(t) /\ UNCHANGED extVars
    \/ Running /\ \E t \in tasks : RemoveUserFromGroupChat(t) /\ UNCHANGED extVars
    \/ Running /\ \E t \in tasks : sendChatList(t) /\ UNCHANGED extVars
    \/ Running /\ \E t \in tasks : SendSnap(t) /\ UNCHANGED extVars
    \/ Running /\ \E t \in tasks : SendCheck(t) /\ UNCHANGED extVars
    \/ Running /\ \E t \in tasks : SendPut(t) /\ UNCHANGED extVars
    \/ Running /\ \E t \in tasks : UnregisterSend(t) /\ UNCHANGED extVars
    \/ Running /\ \E c \in Sessions : WritePumpWrite(c) /\ UNCHANGED extVars

SpecGroup == InitGroup /\ [][NextGroup]_vars

\* The frames of the given type enqueued on session c so far.
SentFrames(c, type) ==
    {f \in {sent[c][i] : i \in 1..Len(sent[c])} : f.type = type}

\* C2: two chat messages one session sends into one conversation are
\* persisted in the order they were read from the socket, and every
\* registered session that has both of them on its queue got them in that
\* order.
C2_InOrder ==
    /\ \A i, j \in 1..Len(messages) :
          (/\ messages[i].type = "chat" /\ messages[j].type = "chat"
           /\ messages[i].c = messages[j].c
           /\ messages[i].chat_id = messages[j].chat_id
           /\ messages[i].q < messages[j].q) => i < j
    /\ \A c \in clients : \A i, j \in 1..Len(sent[c]) :
          (/\ sent[c][i].type = "chat" /\ sent[c][j].type = "chat"
           /\ sent[c][i].chat = sent[c][j].chat
           /\ messages[sent[c][i].id].c = messages[sent[c][j].id].c
           /\ messages[sent[c][i].id].q < messages[sent[c][j].id].q) => i < j

\* C5: a producer standing at its write to a session's queue can always
\* complete it at once: none waits for room in a full queue.
C5_NoProducerBlocks ==
    \A t \in tasks :
        t.pc \in {"put", "reply"} =>
            \/ t.pc = "put"
            \/ sendClosed[t.c]
            \/ Len(send[t.c]) < SendCap

\* How often the frame of message id was enqueued on session c.
Enqueues(c, id) ==
    Cardinality({i \in 1..Len(sent[c]) :
        sent[c][i].type \in {"chat", "gif"} /\ sent[c][i].id = id})

\* C9: once the handler of a message persisted in a group thread and its
\* fan-out have ended, the message has one row, one enqueue on every
\* registered session of every participant of the thread and none on any
\* other session (taken while nobody was removed from the thread and no queue
\* was found full).
C9_GroupMessageOncePerParticipant ==
    \A i \in 1..Len(messages) :
        LET m == messages[i] IN
        (/\ \E g \in Groups : m.chat_id \in GroupThreads(g)
         /\ kicked = {}
         /\ fullSeen = {}
         /\ \A t \in tasks : t.q # m.q)
        => /\ Cardinality({j \in 1..Len(messages) : messages[j].q = m.q}) = 1
           /\ \A c \in clients :
                 Enqueues(c, m.id) =
                    (IF userID(c) \in getChatParticipants(m.chat_id) THEN 1 ELSE 0)

\* C10: once the kick of u from group g is committed, no message read from a
\* socket after the commit and persisted in g's thread is enqueued on a
\* session of u, and u stays out of the participants of g's thread whatever
\* join-group signal for another group u sends.
C10_KickedGetsNothing ==
    \A k \in kicked :
        /\ \A c \in Sessions :
              userID(c) = k.u =>
                 \A f \in SentFrames(c, "chat") \cup SentFrames(c, "gif") :
                    ~(f.chat \in GroupThreads(k.g) /\ messages[f.id].q > k.at)
        /\ \A id \in GroupThreads(k.g) : k.u \notin getChatParticipants(id)

\* C28: a chat message frame is enqueued only on sessions of participants
\* of the thread the message was persisted in, whatever the addressing of
\* the inbound message (a user removed from the thread after the message was
\* read from its socket counts as a participant of that message).
C28_MessageFramesToParticipantsOnly ==
    \A c \in Sessions : \A f \in SentFrames(c, "chat") :
        \/ userID(c) \in getChatParticipants(messages[f.id].chat_id)
        \/ \E k \in kicked :
              /\ k.u = userID(c)
              /\ messages[f.id].chat_id \in GroupThreads(k.g)
              /\ messages[f.id].q <= k.at

\* The members of group g: the rows of group_memberships and the creator.
GroupMembers(g) ==
    {r[2] : r \in {x \in group_memberships : x[1] = g}} \cup {creator_id(g)}

\* C11: whenever no join, leave or kick is under way, the participants of a
\* group's chat thread are exactly the members of the group.
C11_ParticipantsAreMembers ==
    (\A t \in tasks : t.kind \notin {"join", "leave", "kick"}) =>
        \A g \in Groups : \A id \in GroupThreads(g) :
            getChatParticipants(id) = GroupMembers(g)

(* ------------------------ the thread of a group ------------------------- *)

\* Group 1 exists with members u1 (its creator) and u2 but has no thread yet;
\* group 2 does not exist.  u1 (s1) and u2 (s3) are connected.
InitGroupThread ==
    /\ InitHubWith({"s1", "s3"})
    /\ InitRun
    /\ chat_threads = {}
    /\ chat_participants = {}
    /\ messages = <<>>
    /\ group_memberships = {<<1, "u1">>, <<1, "u2">>}
    /\ followers = {}
    /\ groups = {1}

NextGroupThread ==
    \/ Running /\ \E g \in Groups : ReadMessage("s1", "chat", "", g, FALSE) /\ UNCHANGED extVars
    \/ Running /\ ReadMessage("s3", "gif", "", 1, FALSE) /\ UNCHANGED extVars
    \/ Running /\ \E c \in {"s1", "s3"} : ReadMessage(c, "join_group", "", 1, FALSE) /\ UNCHANGED extVars
    \/ Running /\ RestRequest("create_group", "u2", "", 2) /\ UNCHANGED extVars
    \/ Running /\ \E t \in tasks : CreateGroup(t)
    \/ Running /\ \E t \in tasks : TxFind(t) /\ UNCHANGED extVars
    \/ Running /\ \E t \in tasks : TxWrite(t) /\ UNCHANGED extVars
    \/ Running /\ \E t \in tasks : GroupFanout(t) /\ UNCHANGED extVars
    \/ Running /\ \E t \in tasks : JoinFind(t) /\ UNCHANGED extVars
    \/ Running /\ \E t \in tasks : JoinCreate(t) /\ UNCHANGED extVars
    \/ Running /\ \E t \in tasks : AddUserToGroupChat(t) /\ UNCHANGED extVars
    \/ Running /\ \E t \in tasks : sendChatList(t) /\ UNCHANGED extVars
    \/ Running /\ \E t \in tasks : SendSnap(t) /\ UNCHANGED extVars
    \/ Running /\ \E t \in tasks : SendCheck(t) /\ UNCHANGED extVars
    \/ Running /\ \E t \in tasks : SendPut(t) /\ UNCHANGED extVars
    \/ Running /\ \E t \in tasks : UnregisterSend(t) /\ UNCHANGED extVars
    \/ Running /\ \E c \in Sessions : WritePumpWrite(c) /\ UNCHANGED extVars

SpecGroupThread == InitGroupThread /\ [][NextGroupThread]_vars

\* C12: every group has at most one group thread, and every resolution of a
\* group's thread by a message handler that has returned an id returned the
\* id of that one thread.
C12_OneThreadPerGroup ==
    /\ \A g \in Groups : Cardinality(GroupThreads(g)) <= 1
    /\ \A t \in tasks :
          (t.kind \in {"chat", "gif"} /\ UsesGroupThread(t) /\ t.chat # 0)
             => GroupThreads(t.grp) = {t.chat}
    /\ \A t \in chat_threads : t.is_group => t.group_id \in groups

\* C29: every message persisted in the thread of a group was sent by a
\* participant of that thread (here nobody is ever removed from a thread, so
\* a participant at send time is one ever after).
C29_GroupSenderIsParticipant ==
    \A i \in 1..Len(messages) :
        (\E g \in Groups : messages[i].chat_id \in GroupThreads(g))
        => messages[i].sender_id \in getChatParticipants(messages[i].chat_id)

\* Two resolutions of group 1's thread both found none; one has created the
\* thread and the other is about to write.
C12_Witness ==
    /\ GroupThreads(1) # {}
    /\ \E t \in tasks : t.kind \in {"chat", "gif", "join"} /\ t.grp = 1
                          /\ t.pc = "write" /\ t.chat = 0

(* ------------------------------ typing state ---------------------------- *)

\* u1 (s1) and u2 (s3) are connected and share the private thread 1.  u1
\* sends typing frames and may go away.
InitTyping ==
    /\ InitHubWith({"s1", "s3"})
    /\ InitRun
    /\ chat_threads = {[id |-> 1, is_group |-> FALSE, group_id |-> 0]}
    /\ chat_participants = {<<1, "u1">>, <<1, "u2">>}
    /\ messages = <<>>
    /\ group_memberships = {}
    /\ followers = {}
    /\ groups = {}

NextTyping ==
    \/ Running /\ \E on \in BOOLEAN : ReadTyping("s1", 1, on)
    \/ Running /\ \E t \in tasks : TypingFanout(t)
    \/ Running /\ \E t \in tasks : TypingUpdate(t)
    \/ Running /\ PeerGone("s1") /\ UNCHANGED extVars
    \/ Running /\ \E c \in Sessions : ReadPumpExit(c) /\ UNCHANGED extVars
    \/ Running /\ \E c \in Sessions : WritePumpClosed(c) /\ UNCHANGED extVars
    \/ Running /\ HandleUnregister /\ UNCHANGED extVars
    \/ Running /\ \E t \in tasks : UpdateUserStatus(t) /\ UNCHANGED extVars
    \/ Running /\ \E t \in tasks : BroadcastUserStatus(t) /\ UNCHANGED extVars
    \/ Running /\ \E t \in tasks : SendSnap(t) /\ UNCHANGED extVars
    \/ Running /\ \E t \in tasks : SendCheck(t) /\ UNCHANGED extVars
    \/ Running /\ \E t \in tasks : SendPut(t) /\ UNCHANGED extVars
    \/ Running /\ \E t \in tasks : UnregisterSend(t) /\ UNCHANGED extVars
    \/ Running /\ \E c \in Sessions : WritePumpWrite(c) /\ UNCHANGED extVars

SpecTyping == InitTyping /\ [][NextTyping]_vars

\* The typing frames read so far for user u in conversation chat, in order.
TypingFrames(u, chat) ==
    SelectSeq(typingIn, LAMBDA f : f.u = u /\ f.chat = chat)

\* C13: when a typing=true frame and then a typing=false frame of one user
\* for one conversation have both been handled, the typing map has no entry
\* for that user in that conversation, and it never holds an empty inner map.
C13_TypingCleared ==
    /\ \A k \in DOMAIN typingUsers : typingUsers[k] # {}
    /\ \A u \in Users : \A k \in {1} :
          LET fs == TypingFrames(u, k) IN
          (/\ Len(fs) = 2 /\ fs[1].on /\ ~fs[2].on
           /\ \A t \in tasks : ~(t.kind = "typing" /\ t.u = u /\ t.chat = k))
          => u \notin Typing(k)

\* C14: once the last session of a user is unregistered and the offline
\* handling started for it has run, the presence map has no entry for the
\* user and the typing map has no entry for the user in any conversation.
C14_PrunedWhenGone ==
    \A u \in Users :
        (/\ Len(userConnections[u]) = 0
         /\ offlineStarted[u] > 0
         /\ offlineBcast[u] = offlineStarted[u]
         /\ \A t \in tasks : t.u # u)
        => /\ userStatus[u] = "none"
           /\ \A k \in DOMAIN typingUsers : u \notin typingUsers[k]

\* C24: as long as the typing event of a HandleTyping call is not yet handed
\* to every session of every participant, the call has not changed the
\* typing map: it still stands before its update.
C24_BroadcastBeforeTypingState ==
    \A t \in tasks :
        (t.kind = "send" /\ t.frame.type = "typing")
        => \E h \in tasks : h.kind = "typing" /\ h.q = t.q /\ h.pc = "update"

\* C23: a send that races with the unregistration of its session ends
\* nothing but its own task: no task without a recover() stands at its send
\* on a queue that has been closed, and no panic has ended the process (the
\* hub loop and the tasks of every other session with it).
C23_ClosedQueueSendContained ==
    /\ ~crashed
    /\ \A t \in tasks : (t.pc = "put" /\ sendClosed[Head(t.conns)]) => t.rec

(* ----------------------- read receipts and history ---------------------- *)

\* u1 (s1), u2 (s3) and u3 (s4) are connected; u1 and u2 share the private
\* thread 1, which holds two messages of u1; no receipt is recorded.
InitReads ==
    /\ InitHubWith({"s1", "s3", "s4"})
    /\ InitRun
    /\ chat_threads = {[id |-> 1, is_group |-> FALSE, group_id |-> 0]}
    /\ chat_participants = {<<1, "u1">>, <<1, "u2">>}
    /\ messages = <<[id |-> 1, chat_id |-> 1, sender_id |-> "u1", q |-> 0,
                     c |-> "s1", type |-> "chat"],
                    [id |-> 2, chat_id |-> 1, sender_id |-> "u1", q |-> 0,
                     c |-> "s1", type |-> "chat"]>>
    /\ group_memberships = {}
    /\ followers = {}
    /\ groups = {}

NextReads ==
    \/ Running /\ \E c \in {"s1", "s3"}, ids \in {<<1>>, <<1, 1>>, <<1, 2>>} : ReadReadsFrame(c, "read", 1, ids)
    \/ Running /\ \E c \in {"s3", "s4"} : ReadReadsFrame(c, "history", 1, <<>>)
    \/ Running /\ \E t \in tasks : ReadsFind(t)
    \/ Running /\ \E t \in tasks : ReadsWrite(t)
    \/ Running /\ \E t \in tasks : HistoryCheck(t)
    \/ Running /\ \E t \in tasks : HistoryFetch(t)
    \/ Running /\ \E t \in tasks : SendSnap(t) /\ UNCHANGED extVars
    \/ Running /\ \E t \in tasks : SendCheck(t) /\ UNCHANGED extVars
    \/ Running /\ \E t \in tasks : SendPut(t) /\ UNCHANGED extVars
    \/ Running /\ \E t \in tasks : UnregisterSend(t) /\ UNCHANGED extVars
    \/ Running /\ \E c \in Sessions : WritePumpWrite(c) /\ UNCHANGED extVars

SpecReads == InitReads /\ [][NextReads]_vars

\* C15: a chat-history fetch by a participant reports is_read for a message
\* exactly when the fetching user has recorded a read receipt for it,
\* whatever receipts other users have recorded.
C15_IsReadIsMine ==
    \A f \in fetched : \A r \in f.rows : r.is_read <=> (r.id \in f.mine)

\* C16: no (message, user) pair has two rows, and a batch that holds a pair
\* recorded before it returned has succeeded, also when the pair was recorded
\* by a batch handled concurrently.
C16_ReceiptIdempotent ==
    /\ \A i, j \in 1..Len(message_reads) :
          message_reads[i] = message_reads[j] => i = j
    /\ \A d \in readDone : d.dup => d.ok

(* --------------------------- events that fail --------------------------- *)

\* u1 (s1) and u2 (s3) are connected; the store holds users only.  u1 sends
\* chat messages, gifs, read receipts and notifications, some of them to
\* "u9", who is not a user, and gifs whose content is not a tenor URL.
InitErrors == InitHubWith({"s1", "s3"}) /\ InitRun /\ InitStoreEmpty

NextErrors ==
    \/ Running /\ \E k \in {"chat", "gif", "notification"}, r \in {"u2", "u9"} : ReadMessage("s1", k, r, 0, FALSE) /\ Logged(k, "s1", r)
    \/ Running /\ ReadMessage("s1", "gif_invalid", "u2", 0, FALSE) /\ Logged("gif_invalid", "s1", "u2")
    \/ Running /\ ReadReadsFrame("s1", "read", 1, <<1>>)
    \/ Running /\ \E t \in tasks : TxFind(t) /\ UNCHANGED extVars
    \/ Running /\ \E t \in tasks : TxWrite(t) /\ UNCHANGED extVars
    \/ Running /\ \E t \in tasks : ReadsFind(t)
    \/ Running /\ \E t \in tasks : ReadsWrite(t)
    \/ Running /\ \E t \in tasks : NotificationSave(t)
    \/ Running /\ \E t \in tasks : SendSnap(t) /\ UNCHANGED extVars
    \/ Running /\ \E t \in tasks : SendCheck(t) /\ UNCHANGED extVars
    \/ Running /\ \E t \in tasks : SendPut(t) /\ UNCHANGED extVars
    \/ Running /\ \E t \in tasks : UnregisterSend(t) /\ UNCHANGED extVars
    \/ Running /\ \E c \in Sessions : WritePumpWrite(c) /\ UNCHANGED extVars

SpecErrors == InitErrors /\ [][NextErrors]_vars

\* The event read as q has been persisted: its message row, its receipts or
\* its notification row is committed.
Persisted(q) ==
    \/ \E i \in 1..Len(messages) : messages[i].q = q
    \/ \E d \in readDone : d.q = q /\ d.ok
    \/ \E i \in 1..Len(notifications) : notifications[i].q = q

\* The handler of the event read as q and everything it started have ended.
Ended(q) == \A t \in tasks : t.q # q

\* C18: a goroutine holds a chat, gif, read-state or notification frame to
\* enqueue only for an event that has been persisted, and every message or
\* notification frame on a queue names a stored row: an event whose
\* persistence failed is never fanned out.
C18_NoFanoutUnlessPersisted ==
    /\ \A t \in tasks :
          t.frame.type \in {"chat", "gif", "messages_read", "notification"}
             => Persisted(t.q)
    /\ \A c \in Sessions : \A i \in 1..Len(sent[c]) :
          LET f == sent[c][i] IN
          /\ f.type \in {"chat", "gif"} => f.id \in 1..Len(messages)
          /\ f.type = "notification" => f.id \in 1..Len(notifications)
          /\ f.type = "messages_read" => \E d \in readDone : d.ok

\* A read-receipt batch has failed and ended, and a message handled next to
\* it has been saved and sent.
C18_Witness ==
    /\ \E e \in inbound : e.kind = "read" /\ Ended(e.q) /\ ~Persisted(e.q)
    /\ \E c \in Sessions : \E i \in 1..Len(sent[c]) : sent[c][i].type = "chat"

\* C19: when the handling of a chat or gif message has failed, on validation
\* or on persistence, an error frame is on a queue of the sender (no queue
\* having been found full).
C19_FailureReported ==
    \A e \in inbound :
        (/\ e.kind \in {"chat", "gif", "gif_invalid"}
         /\ Ended(e.q) /\ ~Persisted(e.q) /\ fullSeen = {})
        => \E i \in 1..Len(sent[e.c]) :
              sent[e.c][i].type = "gif_error" /\ sent[e.c][i].u = userID(e.c)

\* What the handling of an invalid gif must leave behind: no row of it, no
\* thread without a message, no participant row without a thread, and error
\* frames on queues of the sender only.
InvalidGifContained(e) ==
    /\ \A i \in 1..Len(messages) : messages[i].q # e.q
    /\ \A th \in chat_threads : \E i \in 1..Len(messages) : messages[i].chat_id = th.id
    /\ \A p \in chat_participants : \E th \in chat_threads : th.id = p[1]
    /\ \A c \in Sessions : \A i \in 1..Len(sent[c]) :
          sent[c][i].type = "gif_error" => userID(c) = sent[c][i].u

\* The sender's session has an error frame among the frames enqueued to it.
GotGifError(e) ==
    \E i \in 1..Len(sent[e.c]) : sent[e.c][i].type = "gif_error"

InitPresence == InitHubWith({"s1", "s3", "s4"}) /\ InitRun /\ InitStoreFollows

NextPresence ==
    \/ Running /\ PeerGone("s1") /\ UNCHANGED extVars
    \/ Running /\ \E on \in BOOLEAN : ReadMessage("s4", "user_status_update", "", 0, on) /\ UNCHANGED extVars
    \/ Running /\ \E c \in {"s3", "s4"} : ReadMessage(c, "online_users", "", 0, FALSE) /\ UNCHANGED extVars
    \/ Running /\ \E c \in Sessions : ReadPumpExit(c) /\ UNCHANGED extVars
    \/ Running /\ \E c \in Sessions : WritePumpWrite(c) /\ UNCHANGED extVars
    \/ Running /\ \E c \in Sessions : WritePumpWriteFails(c) /\ UNCHANGED extVars
    \/ Running /\ \E c \in Sessions : WritePumpClosed(c) /\ UNCHANGED extVars
    \/ Running /\ \E c \in Sessions : WritePumpPingFails(c) /\ UNCHANGED extVars
    \/ Running /\ HandleUnregister /\ UNCHANGED extVars
    \/ Running /\ \E t \in tasks : UnregisterSend(t) /\ UNCHANGED extVars
    \/ Running /\ \E t \in tasks : ChatListBuild(t) /\ UNCHANGED extVars
    \/ Running /\ \E t \in tasks : UpdateUserStatus(t) /\ UNCHANGED extVars
    \/ Running /\ \E t \in tasks : BroadcastUserStatus(t) /\ UNCHANGED extVars
    \/ Running /\ \E t \in tasks : OnlineUsersBuild(t) /\ UNCHANGED extVars
    \/ Running /\ \E t \in tasks : SendSnap(t) /\ UNCHANGED extVars
    \/ Running /\ \E t \in tasks : SendCheck(t) /\ UNCHANGED extVars
    \/ Running /\ \E t \in tasks : SendPut(t) /\ UNCHANGED extVars

SpecPresence == InitPresence /\ [][NextPresence]_vars

\* C8: a status frame about U is enqueued only on sessions of users with a
\* follow edge to or from U, and the online-users list built for V holds
\* only related users that are online, never V: users without an edge see
\* nothing of each other's presence.
C8_PresencePrivacy ==
    /\ \A c \in Sessions :
          /\ \A f \in SentFrames(c, "status") : f.u \in getRelatedUsers(userID(c))
          /\ \A f \in SentFrames(c, "online_users") :
                f.users \subseteq getRelatedUsers(userID(c)) \ {userID(c)}
    /\ \A v \in Users :
          GetOnlineUsers(v) \subseteq
             ({u \in Users : userStatus[u] = "online"} \cap getRelatedUsers(v)) \ {v}

\* C8's case: u1 went away while u3 was online; u2 was told, and has had a
\* list naming u1; u3 has had its list.
C8_Witness ==
    /\ \E f \in SentFrames("s3", "status") : f.u = "u1" /\ ~f.on
    /\ \E f \in SentFrames("s3", "online_users") : "u1" \in f.users
    /\ SentFrames("s4", "online_users") # {}
    /\ userStatus["u3"] = "online"

(* ----------------------- REST operations that notify -------------------- *)

\* u1 (s1) and u2 (s3) are connected, nobody follows anybody.  u1 follows u2
\* (a public profile) and creates a notification for u2 over REST.
NextNotify ==
    \/ Running /\ \E k \in {"follow", "rest_notification"} : RestRequest(k, "u1", "u2", 0) /\ UNCHANGED extVars
    \/ Running /\ \E t \in tasks : FollowFind(t)
    \/ Running /\ \E t \in tasks : FollowWrite(t)
    \/ Running /\ \E t \in tasks : CreateNotification(t)
    \/ Running /\ \E t \in tasks : Respond(t)
    \/ Running /\ \E t \in tasks : SendSnap(t) /\ UNCHANGED extVars
    \/ Running /\ \E t \in tasks : SendCheck(t) /\ UNCHANGED extVars
    \/ Running /\ \E t \in tasks : SendPut(t) /\ UNCHANGED extVars
    \/ Running /\ \E t \in tasks : UnregisterSend(t) /\ UNCHANGED extVars
    \/ Running /\ \E c \in Sessions : WritePumpWrite(c) /\ UNCHANGED extVars

SpecNotify == InitErrors /\ [][NextNotify]_vars

\* C22: while the push of the notification of a REST operation is pending
\* (its frame is not yet handed to every session of the recipient), the
\* operation has written its success response or can write it at once: the
\* response is never behind the push.
C22_ResponseNeverBehindPush ==
    \A t \in tasks :
        (t.c = "" /\ t.frame.type = "notification"
                  /\ t.pc \in {"snap", "check", "put"})
        => \/ \E r \in responded : r.q = t.q
           \/ \E t2 \in tasks : t2.q = t.q /\ t2.pc = "respond"

(* ------------------------ requests and their answers -------------------- *)

\* u1 has two registered sessions, s1 and s2, and u3 has one, s4.  u1 follows
\* u2; u1 and u3 have no follow edge but share the private thread 1.
InitReply ==
    /\ InitHubWith({"s1", "s2", "s4"})
    /\ InitRun
    /\ chat_threads = {[id |-> 1, is_group |-> FALSE, group_id |-> 0]}
    /\ chat_participants = {<<1, "u1">>, <<1, "u3">>}
    /\ messages = <<>>
    /\ group_memberships = {}
    /\ followers = {<<"u1", "u2">>}
    /\ groups = {}

\* s1 asks for the online users, for its chat list, for the history of its
\* thread and of a thread it is no participant of, and signals that it
\* joined group 1; u3 sets its presence.
NextReply ==
    \/ Running /\ \E k \in {"online_users", "chat_list"} : ReadMessage("s1", k, "", 0, FALSE) /\ Logged(k, "s1", "")
    \/ Running /\ ReadMessage("s1", "join_group", "", 1, FALSE) /\ Logged("join_group", "s1", "")
    \/ Running /\ \E chat \in {1, 2} : ReadReadsFrame("s1", "history", chat, <<>>)
    \/ Running /\ \E on \in BOOLEAN : ReadMessage("s4", "user_status_update", "", 0, on) /\ Logged("user_status_update", "s4", "")
    \/ Running /\ \E t \in tasks : UpdateUserStatus(t) /\ UNCHANGED extVars
    \/ Running /\ \E t \in tasks : BroadcastUserStatus(t) /\ UNCHANGED extVars
    \/ Running /\ \E t \in tasks : OnlineUsersBuild(t) /\ UNCHANGED extVars
    \/ Running /\ \E t \in tasks : ChatListBuild(t) /\ UNCHANGED extVars
    \/ Running /\ \E t \in tasks : HistoryCheck(t)
    \/ Running /\ \E t \in tasks : HistoryFetch(t)
    \/ Running /\ \E t \in tasks : JoinFind(t) /\ UNCHANGED extVars
    \/ Running /\ \E t \in tasks : JoinCreate(t) /\ UNCHANGED extVars
    \/ Running /\ \E t \in tasks : AddUserToGroupChat(t) /\ UNCHANGED extVars
    \/ Running /\ \E t \in tasks : sendChatList(t) /\ UNCHANGED extVars
    \/ Running /\ \E t \in tasks : SendSnap(t) /\ UNCHANGED extVars
    \/ Running /\ \E t \in tasks : SendCheck(t) /\ UNCHANGED extVars
    \/ Running /\ \E t \in tasks : SendPut(t) /\ UNCHANGED extVars
    \/ Running /\ \E t \in tasks : UnregisterSend(t) /\ UNCHANGED extVars
    \/ Running /\ \E c \in Sessions : WritePumpWrite(c) /\ UNCHANGED extVars

SpecReply == InitReply /\ [][NextReply]_vars

\* C25: an answer to a request (online users, chat list, chat history, the
\* chat list after a join-group signal) or the error frame of a failed
\* request is enqueued only on a session that sent such a request.
C25_AnsweredToRequesterOnly ==
    \A c \in Sessions : \A i \in 1..Len(sent[c]) :
        LET f == sent[c][i] IN
        /\ f.type = "online_users" =>
              \E e \in inbound : e.c = c /\ e.kind = "online_users"
        /\ f.type = "chat_list" =>
              \E e \in inbound : e.c = c /\ e.kind \in {"chat_list", "join_group"}
        /\ f.type \in {"chat_messages", "chat_messages_error"} =>
              \E e \in inbound : e.c = c /\ e.kind = "history"

\* C30: whenever a chat list for V is about to be built, the conversations
\* it flags as online are the same whatever the presence of a user U who has
\* no follow edge with V, and a chat list enqueued to V flags a conversation
\* only for the presence of a participant related to V.
C30_ChatListIgnoresUnrelated ==
    /\ \A t \in tasks :
          (t.kind = "chatlist" /\ t.pc = "build") =>
             \A u \in Users \ ({t.u} \cup getRelatedUsers(t.u)) :
                \A st \in {"none", "online", "offline"} :
                   OnlineChatsGiven([userStatus EXCEPT ![u] = st], t.u)
                      = OnlineChats(t.u)
    /\ \A c \in Sessions : \A f \in SentFrames(c, "chat_list") :
          \A id \in f.chats :
             getChatParticipants(id) \cap getRelatedUsers(userID(c)) # {}

(* ------------------------- access to chat history ----------------------- *)

\* The store of InitGroup.  u3 (s4) asks for the history of the thread of
\* group 1, of which it is a participant until it leaves or u1 kicks it, and
\* of the thread of group 2, of which it never was one.
NextHistory ==
    \/ Running /\ \E chat \in {1, 2} : ReadReadsFrame("s4", "history", chat, <<>>)
    \/ Running /\ RestRequest("kick", "u1", "u3", 1) /\ UNCHANGED extVars
    \/ Running /\ ReadMessage("s4", "leave_group", "", 1, FALSE) /\ UNCHANGED extVars
    \/ Running /\ \E t \in tasks : HistoryCheck(t)
    \/ Running /\ \E t \in tasks : HistoryFetch(t)
    \/ Running /\ \E t \in tasks : KickFind(t) /\ UNCHANGED extVars
    \/ Running /\ \E t \in tasks : KickWrite(t) /\ UNCHANGED extVars
    \/ Running /\ \E t \in tasks : RemoveUserFromGroupChat(t) /\ UNCHANGED extVars
    \/ Running /\ \E t \in tasks : sendChatList(t) /\ UNCHANGED extVars
    \/ Running /\ \E t \in tasks : SendSnap(t) /\ UNCHANGED extVars
    \/ Running /\ \E t \in tasks : SendCheck(t) /\ UNCHANGED extVars
    \/ Running /\ \E t \in tasks : SendPut(t) /\ UNCHANGED extVars
    \/ Running /\ \E t \in tasks : UnregisterSend(t) /\ UNCHANGED extVars
    \/ Running /\ \E c \in Sessions : WritePumpWrite(c) /\ UNCHANGED extVars

SpecHistory == InitGroup /\ [][NextHistory]_vars

\* The session that made the checked request k has the access-denied frame
\* for the conversation among the frames enqueued to it.
HistoryDenied(k) ==
    \E f \in SentFrames(k.c, "chat_messages_error") : f.chat = k.chat

\* A history frame is held or was enqueued only for a request of a user who
\* was a participant of the conversation when the request was checked.
HistoryForParticipantsOnly ==
    /\ \A t \in tasks :
          t.frame.type = "chat_messages"
             => \E k \in checked : k.q = t.q /\ k.chat = t.frame.chat /\ k.part
    /\ \A c \in Sessions : \A f \in SentFrames(c, "chat_messages") :
          \E k \in checked : userID(k.c) = userID(c) /\ k.chat = f.chat /\ k.part

====
